---- MODULE Spec2Model ----
(***************************************************************************)
(* Order-management core of the FINM32500 repository:                      *)
(*   - assignment 4: Order lifecycle (order.py), RiskEngine                *)
(*     (risk_engine.py) and the order pipelines built on them              *)
(*     (risk_engine.process_order_with_risk, main.TradingSystem with       *)
(*     fix_parser.py);                                                     *)
(*   - Assignment 2: the naive order book (baseline.py), the optimized     *)
(*     order book (JeremyZ/optimization.py), the heap sort that extracts   *)
(*     its best prices (HeapSort_Opt.py) and the queries made on both      *)
(*     books (JeremyZ/Query.py).                                           *)
(* Each component has its own specification over the shared variables.     *)
(***************************************************************************)
EXTENDS Integers, Sequences, FiniteSets, TLC

\* ------------------------------------------------------------------------
\* Bounds of the exploration
\* ------------------------------------------------------------------------
\* number of Order objects constructed in one behaviour
MaxOrders == 2
\* number of ledger writes (update_position past its guard) in one behaviour
MaxFills == 2
\* number of orders accepted by baseline.add_order in one behaviour
MaxAdds == 3
\* number of '|'-separated fields of a message handed to FixParser.parse
MaxFields == 4
\* number of messages in a list handed to process_multiple_messages
MaxBatch == 3
MaxEvents == 3
\* number of orders handed to the concurrent callers of process_order_with_risk
MaxUnits == 3
\* length of MarketDataSubject._observers
MaxAttached == 3
\* number of Broker.market_order calls that go through in one behaviour
MaxTrades == 3
\* number of rows of a frame handed to sort on its own
MaxRows == 5

\* ------------------------------------------------------------------------
\* Input domains
\* ------------------------------------------------------------------------
Symbols == {"AAPL", "MSFT"}
\* the Order(symbol, qty, side) constructions explored: Order.side is a free
\* string ("buy" exercises side.upper()), 1500 exceeds max_order_size
OrderInputs == {<<"AAPL", 1000, "buy">>, <<"AAPL", 1000, "SELL">>,
                <<"MSFT", 1500, "BUY">>}

\* order_dict fields handed to baseline.add_order / amend_order / delete_order;
\* "buy" is not a side of the book
BookIds == {1, 2}
\* prices are floats (generate_input draws them uniformly from 1.0 to 200.0);
\* they are held in tenths: 19.6 and 20.4, two prices of one rounded level
Prices == {196, 204}
BookQtys == {5, 7}
BookSides == {"bid", "ask", "buy"}

\* one tag=value field of a FIX message (the text before and after the first
\* '='), and a field that has no '=' at all
Field(tag, value) == [eq |-> TRUE, tag |-> tag, value |-> value]
NoEquals(text) == [eq |-> FALSE, tag |-> text, value |-> ""]

\* a new-order message in the layout of get_sample_fix_messages
SampleMessage(symbol, side, qty) ==
    <<Field("8", "FIX.4.2"), Field("35", "D"), Field("55", symbol),
      Field("54", side), Field("38", qty), Field("40", "2"), Field("10", "128")>>

\* the raw messages handed to process_fix_message, split at '|': three of the
\* samples (a buy and a sell of 100, and 1500 "too large"), one without its
\* Symbol, one with a tag that is not a number
FixMessages ==
    {SampleMessage("AAPL", "1", "100"),
     SampleMessage("AAPL", "2", "100"),
     SampleMessage("AAPL", "1", "1500"),
     <<Field("8", "FIX.4.2"), Field("35", "D"), Field("54", "1"),
       Field("38", "100"), Field("40", "2"), Field("10", "128")>>,
     <<NoEquals("garbage"), Field("35", "D"), Field("OrderQty", "100")>>}

\* OrderState enum
OrderStates == {"NEW", "ACKED", "FILLED", "CANCELED", "REJECTED"}

\* RiskEngine limits as constructed by TradingSystem.__init__
max_order_size == 1000
max_position == 2000

VARIABLES
    orders,     \* the Order objects constructed so far: [symbol, qty, side, state]
    positions,  \* RiskEngine.positions: dict symbol -> signed quantity
    visited,    \* per order: the states the order has been in, oldest first (history)
    applied,    \* per order: how many times the ledger was written for it (history)
    rejected,   \* the orders that entered a pipeline in NEW and failed its
                \* risk check (history)
    last,       \* the last call made and what it returned
    bids,       \* baseline.bids: list of order dicts [order_id, price, quantity, side]
    asks,       \* baseline.asks
    added,      \* number of orders baseline.add_order has accepted; every dict
                \* in the book carries its arrival number (history)
    ts_orders,  \* TradingSystem.orders: dict order id -> index of the Order object
    order_counter,  \* TradingSystem.order_counter
    events,     \* Logger.events as appended by TradingSystem: [event_type, order_id]
    orders_df,  \* optimization.orders_df: the rows in frame order, each indexed
                \* by its order_id: [order_id, price, quantity, side]
    opt_ret,    \* what the last call on the optimized book did: "None" or the
                \* exception it raised
    wire_message,   \* the message last handed to FixParser.parse, split at '|'
    result,     \* what that call made of it: the dict returned or the
                \* exception raised
    messages,   \* process_multiple_messages: the list it was called with
    batch_i,    \* process_multiple_messages: how many messages of the list
                \* the for loop has handed to process_fix_message
    batch_pc,   \* process_multiple_messages: "idle" before the call, "loop"
                \* in its for loop, "done" after save and summary
    observers,  \* MarketDataSubject._observers: list of observers
    calls,      \* the update calls the last notify made, in the order it
                \* made them, each [observer, price]
    cash,       \* Broker.cash
    position,   \* Broker.position
    trades,     \* number of Broker.market_order calls that returned (history)
    heap_df,    \* the frame last handed to sort
    heap_asc,   \* the asc argument of that call
    heap_out,   \* what the call returned
    workers     \* the callers of process_order_with_risk running at once:
                \* for each its position in the function (pc) and the order
                \* it was called with (i, an index of orders)

omsVars == <<orders, positions, visited, applied, rejected>>
bookVars == <<bids, asks, added>>
tsVars == <<ts_orders, order_counter, events>>
optVars == <<orders_df, opt_ret>>
parseVars == <<wire_message, result>>
batchVars == <<messages, batch_i, batch_pc>>
subjectVars == <<observers, calls>>
brokerVars == <<cash, position, trades>>
workerVars == <<workers>>
sortVars == <<heap_df, heap_asc, heap_out>>
restVars == <<subjectVars, brokerVars, workerVars, sortVars>>
vars == <<orders, positions, visited, applied, rejected, last, bids, asks, added,
          ts_orders, order_counter, events, orders_df, opt_ret, wire_message, result, messages, batch_i,
          batch_pc, observers, calls, cash, position, trades, workers, heap_df, heap_asc, heap_out>>

\* ------------------------------------------------------------------------
\* Helpers
\* ------------------------------------------------------------------------
abs(x) == IF x < 0 THEN -x ELSE x

\* str.upper() over the side strings
upper(s) == CASE s = "buy" -> "BUY"
              [] s = "sell" -> "SELL"
              [] OTHER -> s

\* dict.get(key, 0)
get_position(pos, symbol) == IF symbol \in DOMAIN pos THEN pos[symbol] ELSE 0

\* dict[key] = value
SetItem(d, k, v) == [x \in (DOMAIN d) \cup {k} |-> IF x = k THEN v ELSE d[x]]

EmptyDict == [x \in {} |-> 0]

PyBool(b) == IF b THEN "True" ELSE "False"

RECURSIVE SumSeq(_)
SumSeq(s) == IF s = <<>> THEN 0 ELSE Head(s) + SumSeq(Tail(s))

\* ------------------------------------------------------------------------
\* order.py
\* ------------------------------------------------------------------------
\* the `allowed` table of Order.transition
allowed == [s \in {"NEW", "ACKED"} |->
              IF s = "NEW" THEN {"ACKED", "REJECTED"} ELSE {"FILLED", "CANCELED"}]

\* Order.__init__
Order(symbol, qty, side) ==
    [symbol |-> symbol, qty |-> qty, side |-> side, state |-> "NEW"]

\* Order.transition: the value returned and the state the order is left in
transition_mut_no_cancel(state, new_state) ==
    IF state = "NEW" /\ new_state \in {"ACKED", "REJECTED"}
    THEN [ret |-> TRUE, state |-> new_state]
    ELSE IF state = "ACKED" /\ new_state = "FILLED"
         THEN [ret |-> TRUE, state |-> new_state]
         ELSE [ret |-> FALSE, state |-> state]

transition_mut_self(state, new_state) ==
    IF state = new_state
    THEN [ret |-> TRUE, state |-> state]
    ELSE IF state \in DOMAIN allowed /\ new_state \in allowed[state]
         THEN [ret |-> TRUE, state |-> new_state]
         ELSE [ret |-> FALSE, state |-> state]

transition_mut_new_to_filled(state, new_state) ==
    IF state = "NEW" /\ new_state = "FILLED"
    THEN [ret |-> TRUE, state |-> new_state]
    ELSE IF state \in DOMAIN allowed /\ new_state \in allowed[state]
         THEN [ret |-> TRUE, state |-> new_state]
         ELSE [ret |-> FALSE, state |-> state]

transition(state, new_state) ==
    IF state \notin DOMAIN allowed
    THEN [ret |-> FALSE, state |-> state]
    ELSE IF new_state \notin allowed[state]
         THEN [ret |-> FALSE, state |-> state]
         ELSE [ret |-> TRUE, state |-> new_state]

\* the order's history after a transition call that leaves it in state s
Visit(trace, s) == IF trace[Len(trace)] = s THEN trace ELSE Append(trace, s)

\* ------------------------------------------------------------------------
\* risk_engine.py
\* ------------------------------------------------------------------------
\* the signed projection shared by check and update_position
projected_mut_unsigned(order, current_position) ==
    current_position + order.qty

projected(order, current_position) ==
    IF upper(order.side) = "BUY"
    THEN current_position + order.qty
    ELSE current_position - order.qty

\* RiskEngine.check: the verdict and the rule that produced it
check_mut_position_first(order, pos) ==
    LET current_position == get_position(pos, order.symbol)
        new_position == projected(order, current_position)
    IN  IF abs(new_position) > max_position
        THEN [ok |-> FALSE, rule |-> "position"]
        ELSE IF order.qty > max_order_size
             THEN [ok |-> FALSE, rule |-> "size"]
             ELSE [ok |-> TRUE, rule |-> "none"]

check_mut_size_only(order, pos) ==
    IF order.qty > max_order_size
    THEN [ok |-> FALSE, rule |-> "size"]
    ELSE [ok |-> TRUE, rule |-> "none"]

check(order, pos) ==
    LET current_position == get_position(pos, order.symbol)
    IN  IF order.qty > max_order_size
        THEN [ok |-> FALSE, rule |-> "size"]
        ELSE LET new_position == projected(order, current_position)
             IN  IF abs(new_position) > max_position
                 THEN [ok |-> FALSE, rule |-> "position"]
                 ELSE [ok |-> TRUE, rule |-> "none"]

\* RiskEngine.update_position: the ledger after the call
update_position_mut_unguarded(order, pos) ==
    SetItem(pos, order.symbol, projected(order, get_position(pos, order.symbol)))

update_position(order, pos) ==
    IF order.state # "FILLED"
    THEN pos
    ELSE LET current_position == get_position(pos, order.symbol)
             new_position == projected(order, current_position)
         IN  SetItem(pos, order.symbol, new_position)

\* whether update_position passes its guard and writes the ledger
writes_ledger(order) == order.state = "FILLED"

TotalApplied == SumSeq(applied)

\* the callers that may be inside process_order_with_risk at the same time
Workers == {1, 2}

\* ------------------------------------------------------------------------
\* Initial state: no order constructed, RiskEngine.positions = {}
\* ------------------------------------------------------------------------
Init ==
    /\ orders = <<>>
    /\ positions = EmptyDict
    /\ visited = <<>>
    /\ applied = <<>>
    /\ rejected = {}
    /\ last = [op |-> "init", id |-> 0, arg |-> "none", ret |-> "None", rule |-> "none"]
    /\ bids = <<>>
    /\ asks = <<>>
    /\ added = 0
    /\ ts_orders = EmptyDict
    /\ order_counter = 1
    /\ orders_df = <<>>
    /\ opt_ret = "None"
    /\ wire_message = <<>>
    /\ messages = <<>>
    /\ batch_i = 0
    /\ batch_pc = "idle"
    /\ observers = <<>>
    /\ calls = <<>>
    /\ cash = 1000000
    /\ position = 0
    /\ trades = 0
    /\ heap_df = <<>>
    /\ heap_asc = FALSE
    /\ heap_out = [exc |-> "none", rows |-> <<>>]
    /\ workers = [t \in Workers |-> [pc |-> "idle", i |-> 0]]
    /\ result = [err |-> FALSE, msg |-> "none", parsed |-> EmptyDict]
    /\ events = <<>>

\* ------------------------------------------------------------------------
\* Operations
\* ------------------------------------------------------------------------
\* Order(symbol, qty, side)
CreateOrder(symbol, qty, side) ==
    /\ Len(orders) < MaxOrders
    /\ orders' = Append(orders, Order(symbol, qty, side))
    /\ visited' = Append(visited, <<Order(symbol, qty, side).state>>)
    /\ applied' = Append(applied, 0)
    /\ last' = [op |-> "create", id |-> Len(orders) + 1, arg |-> "none",
                ret |-> "None", rule |-> "none"]
    /\ UNCHANGED <<positions, rejected, bookVars, tsVars, optVars, parseVars, batchVars, restVars>>

\* order.transition(new_state)
TransitionOrder(i, new_state) ==
    /\ i \in DOMAIN orders
    /\ LET r == transition(orders[i].state, new_state)
       IN  /\ orders' = [orders EXCEPT ![i].state = r.state]
           /\ visited' = [visited EXCEPT ![i] = Visit(@, r.state)]
           /\ last' = [op |-> "transition", id |-> i, arg |-> new_state,
                       ret |-> PyBool(r.ret), rule |-> "none"]
    /\ UNCHANGED <<positions, applied, rejected, bookVars, tsVars, optVars, parseVars, batchVars, restVars>>

\* risk_engine.check(order)
CheckOrder_mut_speculative(i) ==
    /\ i \in DOMAIN orders
    /\ LET c == check(orders[i], positions)
       IN  /\ last' = [op |-> "check", id |-> i, arg |-> "none",
                       ret |-> PyBool(c.ok), rule |-> c.rule]
           /\ positions' = IF c.ok
                           THEN SetItem(positions, orders[i].symbol,
                                        projected(orders[i],
                                                  get_position(positions, orders[i].symbol)))
                           ELSE positions
    /\ UNCHANGED <<orders, visited, applied, rejected, bookVars, tsVars, optVars, parseVars, batchVars, restVars>>

CheckOrder(i) ==
    /\ i \in DOMAIN orders
    /\ LET c == check(orders[i], positions)
       IN  last' = [op |-> "check", id |-> i, arg |-> "none",
                    ret |-> PyBool(c.ok), rule |-> c.rule]
    /\ UNCHANGED <<orders, positions, visited, applied, rejected, bookVars, tsVars, optVars, parseVars, batchVars, restVars>>

\* risk_engine.update_position(order)
UpdatePosition(i) ==
    /\ i \in DOMAIN orders
    /\ writes_ledger(orders[i]) => TotalApplied < MaxFills
    /\ positions' = update_position(orders[i], positions)
    /\ applied' = [applied EXCEPT ![i] = IF writes_ledger(orders[i]) THEN @ + 1 ELSE @]
    /\ last' = [op |-> "update", id |-> i, arg |-> orders[i].state,
                ret |-> "None", rule |-> "none"]
    /\ UNCHANGED <<orders, visited, rejected, bookVars, tsVars, optVars, parseVars, batchVars, restVars>>

\* process_order_with_risk(order, risk_engine)
ProcessOrderWithRisk_mut_ack_first(i) ==
    /\ i \in DOMAIN orders
    /\ TotalApplied < MaxFills
    /\ UNCHANGED <<bookVars, tsVars, optVars, parseVars, batchVars, restVars>>
    /\ LET o == orders[i]
           c == check(o, positions)
           t1 == transition(o.state, "ACKED")
       IN  IF ~c.ok
           THEN LET t == transition(t1.state, "REJECTED")
                IN  /\ orders' = [orders EXCEPT ![i].state = t.state]
                    /\ visited' = [visited EXCEPT ![i] = Visit(Visit(@, t1.state), t.state)]
                    /\ rejected' = IF o.state = "NEW" THEN rejected \cup {i} ELSE rejected
                    /\ last' = [op |-> "process", id |-> i, arg |-> o.state,
                                ret |-> "False", rule |-> c.rule]
                    /\ UNCHANGED <<positions, applied>>
           ELSE LET t2 == transition(t1.state, "FILLED")
                    filled == [o EXCEPT !.state = t2.state]
                IN  /\ orders' = [orders EXCEPT ![i] = filled]
                    /\ visited' = [visited EXCEPT ![i] = Visit(Visit(@, t1.state), t2.state)]
                    /\ positions' = update_position(filled, positions)
                    /\ applied' = [applied EXCEPT ![i] =
                                     IF writes_ledger(filled) THEN @ + 1 ELSE @]
                    /\ last' = [op |-> "process", id |-> i, arg |-> o.state,
                                ret |-> "True", rule |-> c.rule]
                    /\ UNCHANGED rejected

ProcessOrderWithRisk(i) ==
    /\ i \in DOMAIN orders
    /\ TotalApplied < MaxFills
    /\ UNCHANGED <<bookVars, tsVars, optVars, parseVars, batchVars, restVars>>
    /\ LET o == orders[i]
           c == check(o, positions)
       IN  IF ~c.ok
           THEN LET t == transition(o.state, "REJECTED")
                IN  /\ orders' = [orders EXCEPT ![i].state = t.state]
                    /\ visited' = [visited EXCEPT ![i] = Visit(@, t.state)]
                    /\ rejected' = IF o.state = "NEW" THEN rejected \cup {i} ELSE rejected
                    /\ last' = [op |-> "process", id |-> i, arg |-> o.state,
                                ret |-> "False", rule |-> c.rule]
                    /\ UNCHANGED <<positions, applied>>
           ELSE LET t1 == transition(o.state, "ACKED")
                    t2 == transition(t1.state, "FILLED")
                    filled == [o EXCEPT !.state = t2.state]
                IN  /\ orders' = [orders EXCEPT ![i] = filled]
                    /\ visited' = [visited EXCEPT ![i] = Visit(Visit(@, t1.state), t2.state)]
                    /\ positions' = update_position(filled, positions)
                    /\ applied' = [applied EXCEPT ![i] =
                                     IF writes_ledger(filled) THEN @ + 1 ELSE @]
                    /\ last' = [op |-> "process", id |-> i, arg |-> o.state,
                                ret |-> "True", rule |-> c.rule]
                    /\ UNCHANGED rejected

\* ------------------------------------------------------------------------
\* fix_parser.py
\* ------------------------------------------------------------------------
ESSENTIAL_TAGS ==
    [t \in {8, 9, 35, 49, 56, 34, 52, 55, 54, 40, 11, 39, 150, 60, 10} |->
        CASE t = 8 -> "BeginString"
          [] t = 9 -> "BodyLength"
          [] t = 35 -> "MsgType"
          [] t = 49 -> "SenderCompID"
          [] t = 56 -> "TargetCompID"
          [] t = 34 -> "MsgSeqNum"
          [] t = 52 -> "SendingTime"
          [] t = 55 -> "Symbol"
          [] t = 54 -> "Side"
          [] t = 40 -> "OrdType"
          [] t = 11 -> "ClOrdID"
          [] t = 39 -> "OrdStatus"
          [] t = 150 -> "ExecType"
          [] t = 60 -> "TransactTime"
          [] t = 10 -> "CheckSum"]

\* the keys of FixParser.SIDES
SIDES == {"1", "2"}

\* int(text) for the texts that occur; a text outside the table is not an
\* integer literal and int raises ValueError
IntLiteral ==
    [t \in {"8", "9", "10", "11", "34", "35", "38", "39", "40", "49", "52", "54",
            "55", "56", "60", "150", "100", "1000", "1500"} |->
        CASE t = "8" -> 8 [] t = "9" -> 9 [] t = "10" -> 10 [] t = "11" -> 11
          [] t = "34" -> 34 [] t = "35" -> 35 [] t = "38" -> 38 [] t = "39" -> 39
          [] t = "40" -> 40 [] t = "49" -> 49 [] t = "52" -> 52 [] t = "54" -> 54
          [] t = "55" -> 55 [] t = "56" -> 56 [] t = "60" -> 60 [] t = "150" -> 150
          [] t = "100" -> 100 [] t = "1000" -> 1000 [] t = "1500" -> 1500]

\* Python's None
None == "<None>"

\* dict.get(key, default)
DictGet(d, key, default) == IF key \in DOMAIN d THEN d[key] ELSE default

\* `not x` for a string or None
Falsy(x) == x = None \/ x = ""

RECURSIVE parse_loop(_, _)
\* the loop of FixParser.parse over the split fields; err when int(tag) raises
parse_loop(fields, parsed) ==
    IF fields = <<>>
    THEN [err |-> FALSE, msg |-> "none", parsed |-> parsed]
    ELSE LET field == Head(fields)
         IN  IF ~field.eq
             THEN parse_loop(Tail(fields), parsed)
             ELSE IF field.tag \notin DOMAIN IntLiteral
                  THEN [err |-> TRUE, msg |-> "invalid literal for int()",
                        parsed |-> parsed]
                  ELSE LET tag_num == IntLiteral[field.tag]
                       IN  IF tag_num \in DOMAIN ESSENTIAL_TAGS
                           THEN parse_loop(Tail(fields),
                                           SetItem(parsed, ESSENTIAL_TAGS[tag_num],
                                                   field.value))
                           ELSE parse_loop(Tail(fields), parsed)

\* _validate_essential_fields with OrdType left out of the required list
validate_essential_fields_mut_no_ordtype(parsed) ==
    IF "MsgType" \notin DOMAIN parsed
    THEN "Missing MsgType (tag 35)"
    ELSE IF parsed["MsgType"] = "D"
         THEN IF \E field \in {"Symbol", "Side"} : field \notin DOMAIN parsed
              THEN "Missing required field"
              ELSE IF parsed["Side"] \notin SIDES
                   THEN "Invalid side"
                   ELSE "none"
         ELSE "none"

\* _validate_essential_fields without its test of the side
validate_essential_fields_mut_any_side(parsed) ==
    IF "MsgType" \notin DOMAIN parsed
    THEN "Missing MsgType (tag 35)"
    ELSE IF parsed["MsgType"] = "D"
         THEN IF \E field \in {"Symbol", "Side", "OrdType"} : field \notin DOMAIN parsed
              THEN "Missing required field"
              ELSE "none"
         ELSE "none"

\* FixParser._validate_essential_fields: the message of the ValueError it
\* raises, "none" when it returns
validate_essential_fields(parsed) ==
    IF "MsgType" \notin DOMAIN parsed
    THEN "Missing MsgType (tag 35)"
    ELSE IF parsed["MsgType"] = "D"
         THEN IF \E field \in {"Symbol", "Side", "OrdType"} : field \notin DOMAIN parsed
              THEN "Missing required field"
              ELSE IF parsed["Side"] \notin SIDES
                   THEN "Invalid side"
                   ELSE "none"
         ELSE "none"

\* TRUE when _validate_essential_fields raises
validate_raises(parsed) == validate_essential_fields(parsed) # "none"

\* FixParser.parse
parse(fix_message) ==
    LET r == parse_loop(fix_message, EmptyDict)
    IN  IF r.err
        THEN r
        ELSE [err |-> validate_raises(r.parsed),
              msg |-> validate_essential_fields(r.parsed),
              parsed |-> r.parsed]

\* ------------------------------------------------------------------------
\* main.py: TradingSystem
\* ------------------------------------------------------------------------
\* TradingSystem._create_order_from_fix: the order built, or ok = FALSE for
\* the None it returns when a field is missing or int(qty_str) raises
create_order_from_fix(parsed_msg) ==
    LET symbol == DictGet(parsed_msg, "Symbol", None)
        qty_str == DictGet(parsed_msg, "OrderQty", DictGet(parsed_msg, "38", None))
        side == DictGet(parsed_msg, "Side_Decoded", DictGet(parsed_msg, "Side", None))
    IN  IF Falsy(symbol) \/ Falsy(qty_str) \/ Falsy(side)
        THEN [ok |-> FALSE, order |-> None]
        ELSE IF qty_str \notin DOMAIN IntLiteral
             THEN [ok |-> FALSE, order |-> None]
             ELSE [ok |-> TRUE, order |-> Order(symbol, IntLiteral[qty_str], side)]

\* the event Logger.log(event_type, data) builds, as called by TradingSystem;
\* of data the order id is kept
log(event_type, order_id) == [event_type |-> event_type, order_id |-> order_id]

\* self.events.append(event) in Logger.log
events_append_mut_front(evs, event) == <<event>> \o evs

events_append(evs, event) == Append(evs, event)

\* steps 1 and 2 of process_fix_message for each raw message: what parse and
\* _create_order_from_fix make of it
Decoded ==
    [raw_message \in FixMessages |->
        LET p == parse(raw_message)
        IN  IF p.err
            THEN [err |-> TRUE, ok |-> FALSE, order |-> None]
            ELSE LET c == create_order_from_fix(p.parsed)
                 IN  [err |-> FALSE, ok |-> c.ok, order |-> c.order]]

\* TradingSystem.process_fix_message(raw_message).  Its except branch acts on
\* the order only when one was bound before the exception; parse is the only
\* call that raises, so the branch has nothing to reject.
process_fix_message(raw_message) ==
    LET c == Decoded[raw_message]
    IN  IF c.err \/ ~c.ok
        THEN /\ last' = [op |-> "fix", id |-> 0, arg |-> "none",
                         ret |-> IF c.err THEN "ValueError" ELSE "None",
                         rule |-> "none"]
             /\ UNCHANGED <<omsVars, bookVars, tsVars, optVars, parseVars, restVars>>
        ELSE LET i == Len(orders) + 1
                 order_id == order_counter
                 v == check(c.order, positions)
             IN  /\ Len(orders) < MaxOrders
                 /\ TotalApplied < MaxFills
                 /\ order_counter' = order_counter + 1
                 /\ ts_orders' = SetItem(ts_orders, order_id, i)
                 /\ UNCHANGED <<bookVars, optVars, parseVars, restVars>>
                 /\ IF ~v.ok
                    THEN LET t == transition(c.order.state, "REJECTED")
                         IN  /\ orders' = Append(orders, [c.order EXCEPT !.state = t.state])
                             /\ visited' = Append(visited, Visit(<<c.order.state>>, t.state))
                             /\ applied' = Append(applied, 0)
                             /\ rejected' = rejected \cup {i}
                             /\ events' = events_append(
                                              events_append(events, log("ORDER_CREATED", order_id)),
                                              log("ORDER_REJECTED", order_id))
                             /\ last' = [op |-> "fix", id |-> i, arg |-> "NEW",
                                         ret |-> "False", rule |-> v.rule]
                             /\ UNCHANGED positions
                    ELSE LET t1 == transition(c.order.state, "ACKED")
                             t2 == transition(t1.state, "FILLED")
                             filled == [c.order EXCEPT !.state = t2.state]
                         IN  /\ orders' = Append(orders, filled)
                             /\ visited' = Append(visited,
                                                  Visit(Visit(<<c.order.state>>, t1.state),
                                                        t2.state))
                             /\ positions' = update_position(filled, positions)
                             /\ applied' = Append(applied,
                                                  IF writes_ledger(filled) THEN 1 ELSE 0)
                             /\ events' = events_append(
                                              events_append(
                                                events_append(events, log("ORDER_CREATED", order_id)),
                                                log("ORDER_ACKNOWLEDGED", order_id)),
                                              log("ORDER_FILLED", order_id))
                             /\ last' = [op |-> "fix", id |-> i, arg |-> "NEW",
                                         ret |-> "True", rule |-> v.rule]
                             /\ UNCHANGED rejected

Next ==
    \/ \E in \in OrderInputs : CreateOrder(in[1], in[2], in[3])
    \/ \E i \in 1..MaxOrders, new_state \in OrderStates : TransitionOrder(i, new_state)
    \/ \E i \in 1..MaxOrders : CheckOrder(i)
    \/ \E i \in 1..MaxOrders : UpdatePosition(i)
    \/ \E i \in 1..MaxOrders : ProcessOrderWithRisk(i)
    \/ \E raw_message \in FixMessages :
          process_fix_message(raw_message) /\ UNCHANGED batchVars

Spec == Init /\ [][Next]_vars

\* ------------------------------------------------------------------------
\* baseline.py: the naive order book
\* ------------------------------------------------------------------------
\* whether e stays ahead of x when x is placed by sorted(key=price, reverse)
KeepsAhead_mut_unstable(e, x, reverse) ==
    IF reverse THEN e.price > x.price ELSE e.price < x.price

KeepsAhead(e, x, reverse) ==
    IF reverse THEN e.price >= x.price ELSE e.price <= x.price

\* x placed in an already sorted list, behind every element that keeps ahead
InsertSorted(s, x, reverse) ==
    LET k == Cardinality({j \in DOMAIN s : KeepsAhead(s[j], x, reverse)})
    IN  SubSeq(s, 1, k) \o <<x>> \o SubSeq(s, k + 1, Len(s))

RECURSIVE sorted(_, _)
\* sorted(list, key=lambda x: x['price'], reverse=reverse): a stable sort
sorted(list, reverse) ==
    IF list = <<>>
    THEN <<>>
    ELSE InsertSorted(sorted(SubSeq(list, 1, Len(list) - 1), reverse),
                      list[Len(list)], reverse)

\* the amend loop: every dict with the id gets the new quantity
SetQuantity(list, order_id, new_quantity) ==
    [j \in DOMAIN list |->
        IF list[j].order_id = order_id
        THEN [list[j] EXCEPT !.quantity = new_quantity]
        ELSE list[j]]

RECURSIVE PopLoop(_, _, _)
\* the delete loop: enumerate(list) with list.pop(index) inside it; after a
\* pop the iteration goes on at index + 1 of the shortened list
PopLoop(list, index, order_id) ==
    IF index > Len(list)
    THEN list
    ELSE IF list[index].order_id = order_id
         THEN PopLoop(SubSeq(list, 1, index - 1) \o SubSeq(list, index + 1, Len(list)),
                      index + 1, order_id)
         ELSE PopLoop(list, index + 1, order_id)

\* baseline.add_order(order_dict)
add_order(order_id, price, quantity, side) ==
    /\ added < MaxAdds
    /\ LET order_dict == [order_id |-> order_id, price |-> price,
                          quantity |-> quantity, side |-> side,
                          arrival |-> added + 1]
       IN  IF side = "bid"
           THEN /\ bids' = sorted(Append(bids, order_dict), TRUE)
                /\ added' = added + 1
                /\ last' = [op |-> "add", id |-> order_id, arg |-> side,
                            ret |-> "None", rule |-> "none"]
                /\ UNCHANGED asks
           ELSE IF side = "ask"
                THEN /\ asks' = sorted(Append(asks, order_dict), FALSE)
                     /\ added' = added + 1
                     /\ last' = [op |-> "add", id |-> order_id, arg |-> side,
                                 ret |-> "None", rule |-> "none"]
                     /\ UNCHANGED bids
                ELSE /\ last' = [op |-> "add", id |-> order_id, arg |-> side,
                                 ret |-> "ValueError", rule |-> "none"]
                     /\ UNCHANGED bookVars
    /\ UNCHANGED <<omsVars, tsVars, parseVars, batchVars, restVars>>

\* baseline.amend_order(order_id, new_quantity)
amend_order(order_id, new_quantity) ==
    /\ bids' = sorted(SetQuantity(bids, order_id, new_quantity), TRUE)
    /\ asks' = sorted(SetQuantity(asks, order_id, new_quantity), FALSE)
    /\ last' = [op |-> "amend", id |-> order_id, arg |-> "none",
                ret |-> "None", rule |-> "none"]
    /\ UNCHANGED <<added, omsVars, tsVars, parseVars, batchVars, restVars>>

\* baseline.delete_order(order_id)
delete_order(order_id) ==
    /\ bids' = sorted(PopLoop(bids, 1, order_id), TRUE)
    /\ asks' = sorted(PopLoop(asks, 1, order_id), FALSE)
    /\ last' = [op |-> "delete", id |-> order_id, arg |-> "none",
                ret |-> "None", rule |-> "none"]
    /\ UNCHANGED <<added, omsVars, tsVars, parseVars, batchVars, restVars>>

\* the three loops of timer for model_name == 'base'
NextBook ==
    \/ \E order_id \in BookIds, price \in Prices, quantity \in BookQtys, side \in BookSides :
          add_order(order_id, price, quantity, side) /\ UNCHANGED optVars
    \/ \E order_id \in BookIds, new_quantity \in BookQtys :
          amend_order(order_id, new_quantity) /\ UNCHANGED optVars
    \/ \E order_id \in BookIds : delete_order(order_id) /\ UNCHANGED optVars

SpecBook == Init /\ [][NextBook]_vars

\* ------------------------------------------------------------------------
\* JeremyZ/optimization.py: the optimized order book, one pandas DataFrame
\* whose index is the order_id column (set_index(drop=False)); labels may
\* repeat
\* ------------------------------------------------------------------------
\* the positions of the rows a label selects
loc(df, label) == {j \in DOMAIN df : df[j].order_id = label}

\* the frame without the rows at the given positions, the others in place
drop(df, positions_) ==
    LET F[j \in 0..Len(df)] ==
            IF j = 0 THEN <<>>
            ELSE IF j \in positions_ THEN F[j - 1] ELSE Append(F[j - 1], df[j])
    IN  F[Len(df)]

\* the rows of one side: orders_df.loc[orders_df['side'] == side, :]
side_rows(df, side) == SelectSeq(df, LAMBDA row : row.side = side)

\* optimization.add_order(orders) with a frame of one row: concat appends
\* the row whatever its side or id, set_index makes its order_id its label
opt_add_order(order_id, price, quantity, side) ==
    /\ orders_df' = Append(orders_df, [order_id |-> order_id, price |-> price,
                                        quantity |-> quantity, side |-> side])
    /\ opt_ret' = "None"

\* optimization.amend_order(order_ids, new_quantities) with one id and one
\* quantity, as the Series and list timer passes: .loc[labels, 'quantity'] =
\* values raises KeyError for a label that is not in the index and ValueError
\* when the label selects more rows than there are values
opt_amend_order(order_id, new_quantity) ==
    LET rows == loc(orders_df, order_id)
    IN  IF rows = {}
        THEN /\ opt_ret' = "KeyError"
             /\ UNCHANGED orders_df
        ELSE IF Cardinality(rows) # 1
             THEN /\ opt_ret' = "ValueError"
                  /\ UNCHANGED orders_df
             ELSE /\ orders_df' = [j \in DOMAIN orders_df |->
                                      IF j \in rows
                                      THEN [orders_df[j] EXCEPT !.quantity = new_quantity]
                                      ELSE orders_df[j]]
                  /\ opt_ret' = "None"

\* optimization.delete_order(order_ids) with one id: drop removes every row
\* of the label and raises KeyError when there is none
opt_delete_order(order_id) ==
    LET rows == loc(orders_df, order_id)
    IN  IF rows = {}
        THEN /\ opt_ret' = "KeyError"
             /\ UNCHANGED orders_df
        ELSE /\ orders_df' = drop(orders_df, rows)
             /\ opt_ret' = "None"

\* ------------------------------------------------------------------------
\* HeapSort_Opt.py: heap sort of a frame by its price column
\* ------------------------------------------------------------------------
\* arr is the array sort builds, one [label, price] pair per row; positions
\* are numbered from 0 as in the source
price_at(arr, i) == arr[i + 1].price

\* arr[[i, j], :] = arr[[j, i], :]
swap(arr, i, j) == [arr EXCEPT ![i + 1] = arr[j + 1], ![j + 1] = arr[i + 1]]

max(a, b, c) ==
    IF a >= b /\ a >= c THEN a ELSE IF b >= c THEN b ELSE c

min(a, b, c) ==
    IF a <= b /\ a <= c THEN a ELSE IF b <= c THEN b ELSE c

\* the value the left (right) child is compared with: max for a descending
\* sort, min for an ascending one
extreme_mut_always_max(arr, parent, asc) ==
    max(price_at(arr, parent), price_at(arr, parent * 2 + 1),
        price_at(arr, parent * 2 + 2))

extreme(arr, parent, asc) ==
    LET a == price_at(arr, parent)
        b == price_at(arr, parent * 2 + 1)
        c == price_at(arr, parent * 2 + 2)
    IN  IF asc THEN min(a, b, c) ELSE max(a, b, c)

RECURSIVE heapify(_, _, _)
\* heapify(arr, parent, asc): three if statements in a row, each reading the
\* array as the one before left it
heapify(arr, parent, asc) ==
    LET left_child == parent * 2 + 1
        right_child == parent * 2 + 2
        n == Len(arr)
    IN  IF ~(left_child < n)
        THEN arr
        ELSE LET arr1 == IF /\ right_child < n
                            /\ price_at(arr, left_child) = extreme(arr, parent, asc)
                         THEN heapify(swap(arr, parent, left_child), left_child, asc)
                         ELSE arr
                 arr2 == IF /\ right_child < n
                            /\ price_at(arr1, right_child) = extreme(arr1, parent, asc)
                         THEN heapify(swap(arr1, parent, right_child), right_child, asc)
                         ELSE arr1
             IN  IF /\ right_child = n
                    /\ IF asc
                       THEN price_at(arr2, left_child) < price_at(arr2, parent)
                       ELSE price_at(arr2, left_child) > price_at(arr2, parent)
                 THEN swap(arr2, parent, left_child)
                 ELSE arr2

RECURSIVE heapify_all(_, _, _)
\* for parent in range(arr.shape[0] // 2 - 1, -1, -1): heapify(arr, parent, asc)
heapify_all(arr, parent, asc) ==
    IF parent < 0
    THEN arr
    ELSE heapify_all(heapify(arr, parent, asc), parent - 1, asc)

\* df.loc[[label], :]: every row of the label, in frame order
loc_rows(df, label) == SelectSeq(df, LAMBDA row : row.order_id = label)

RECURSIVE sort_loop(_, _, _, _)
\* the while loop of sort and its else clause, which runs when the loop ends
\* and reads arr[0, 0] also of an array that has no row
sort_loop(df, arr, sorted_df, asc) ==
    IF Len(arr) > 1
    THEN LET heap == heapify_all(arr, (Len(arr) \div 2) - 1, asc)
         IN  sort_loop(df, Tail(heap), sorted_df \o loc_rows(df, heap[1].label), asc)
    ELSE IF arr = <<>>
         THEN [exc |-> "IndexError", rows |-> <<>>]
         ELSE [exc |-> "none", rows |-> sorted_df \o loc_rows(df, arr[1].label)]

\* sort(df, 'price', asc)
sort(df, asc) ==
    sort_loop(df, [j \in DOMAIN df |-> [label |-> df[j].order_id, price |-> df[j].price]],
              <<>>, asc)

\* ------------------------------------------------------------------------
\* JeremyZ/Query.py: the queries on both books
\* ------------------------------------------------------------------------
\* round(x) and np.round(x) of a price held in tenths: to the nearest
\* integer, a half to the even one
round(price) ==
    LET q == price \div 10
        r == price % 10
    IN  IF r < 5 THEN q
        ELSE IF r > 5 THEN q + 1
        ELSE IF q % 2 = 0 THEN q ELSE q + 1

\* the price levels asked for (Query.py asks for 190)
PriceLevels == {19, 20}

\* the four columns of an order, as a frame row holds them
Row(order) == [order_id |-> order.order_id, price |-> order.price,
               quantity |-> order.quantity, side |-> order.side]

\* list[0]
first(list) ==
    IF list = <<>>
    THEN [exc |-> "IndexError", rows |-> <<>>]
    ELSE [exc |-> "none", rows |-> <<Row(list[1])>>]

\* the order_id of every order of the list at the level
ids_at(list, level) ==
    LET F[j \in 0..Len(list)] ==
            IF j = 0 THEN <<>>
            ELSE IF round(list[j].price) = level
                 THEN Append(F[j - 1], list[j].order_id)
                 ELSE F[j - 1]
    IN  F[Len(list)]

\* price_levels[level] of the naive book: a comprehension over asks + bids
price_levels(level) == ids_at(asks \o bids, level)

\* best_bid = base.bids[0] and best_ask = base.asks[0]
best_bid == first(bids)
best_ask == first(asks)

\* price_levels_opt[level]: the order_id column of the rows at the level
price_levels_opt(level) == ids_at(orders_df, level)

\* .iloc[0, :] of a sorted frame
iloc0(sorted_df) ==
    IF sorted_df.exc # "none"
    THEN sorted_df
    ELSE [exc |-> "none", rows |-> <<sorted_df.rows[1]>>]

\* best_bid_opt and best_ask_opt
best_bid_opt == iloc0(sort(side_rows(orders_df, "bid"), FALSE))
best_ask_opt == iloc0(sort(side_rows(orders_df, "ask"), TRUE))

\* Query.py and timer feed both books the same orders: one add, amend or
\* delete made on the naive book and then on the optimized one
AddBoth(order_id, price, quantity, side) ==
    /\ Len(orders_df) < MaxAdds
    /\ add_order(order_id, price, quantity, side)
    /\ opt_add_order(order_id, price, quantity, side)

AmendBoth(order_id, new_quantity) ==
    /\ amend_order(order_id, new_quantity)
    /\ opt_amend_order(order_id, new_quantity)

DeleteBoth(order_id) ==
    /\ delete_order(order_id)
    /\ opt_delete_order(order_id)

\* the orders added to both books: three bids at one price, a bid and an ask
\* that repeat an id, two asks, and an order whose side is not a book side
QueryOrders ==
    {<<1, 196, 5, "bid">>, <<2, 196, 5, "bid">>, <<3, 196, 5, "bid">>,
     <<2, 204, 7, "bid">>, <<1, 204, 5, "ask">>, <<2, 196, 5, "ask">>,
     <<3, 196, 5, "buy">>}

NextQuery ==
    \/ \E o \in QueryOrders : AddBoth(o[1], o[2], o[3], o[4])
    \/ \E order_id \in BookIds, new_quantity \in BookQtys : AmendBoth(order_id, new_quantity)
    \/ \E order_id \in BookIds : DeleteBoth(order_id)

SpecQuery == Init /\ [][NextQuery]_vars

\* ------------------------------------------------------------------------
\* fix_parser.py: FixParser.parse called on messages of a few fields
\* ------------------------------------------------------------------------
\* the fields the messages are built of: the four an order needs (with
\* either side code), a quantity (tag 38), a side that is no side, another
\* message type, a tag that is not a number, and a piece of text without '='
ParseFields ==
    {Field("35", "D"), Field("55", "AAPL"), Field("54", "1"), Field("54", "2"),
     Field("40", "2"), Field("38", "100"), Field("54", "3"), Field("35", "8"),
     Field("OrderQty", "100"), NoEquals("garbage")}

\* parser.parse(fix_message) on the message so far with one more field
ParseMessage(field) ==
    /\ Len(wire_message) < MaxFields
    /\ wire_message' = Append(wire_message, field)
    /\ result' = parse(wire_message')
    /\ last' = [op |-> "parse", id |-> 0, arg |-> "none",
                ret |-> IF result'.err THEN "ValueError" ELSE "dict",
                rule |-> "none"]
    /\ UNCHANGED <<omsVars, bookVars, tsVars, optVars, batchVars, restVars>>

NextParse == \E field \in ParseFields : ParseMessage(field)

SpecParse == Init /\ [][NextParse]_vars

\* ------------------------------------------------------------------------
\* main.py: TradingSystem.process_multiple_messages
\* ------------------------------------------------------------------------
\* the lists of messages the method is called with
MessageLists == UNION {[1..n -> FixMessages] : n \in 0..MaxBatch}

\* the call: the for loop is entered with the list
process_multiple_messages(list) ==
    /\ batch_pc = "idle"
    /\ messages' = list
    /\ batch_i' = 0
    /\ batch_pc' = "loop"
    /\ last' = [op |-> "batch", id |-> 0, arg |-> "none", ret |-> "None", rule |-> "none"]
    /\ UNCHANGED <<omsVars, bookVars, tsVars, optVars, parseVars, restVars>>

\* one turn of the loop that ends at the first message an exception escapes
\* from process_fix_message for
ProcessNextMessage_mut_abort ==
    /\ batch_pc = "loop"
    /\ batch_i < Len(messages)
    /\ process_fix_message(messages[batch_i + 1])
    /\ batch_i' = IF last'.ret = "ValueError" THEN Len(messages) ELSE batch_i + 1
    /\ UNCHANGED <<messages, batch_pc>>

\* one turn of the for loop: self.process_fix_message(message), which
\* catches every exception itself
ProcessNextMessage ==
    /\ batch_pc = "loop"
    /\ batch_i < Len(messages)
    /\ process_fix_message(messages[batch_i + 1])
    /\ batch_i' = batch_i + 1
    /\ UNCHANGED <<messages, batch_pc>>

\* after the loop: self.logger.save() and self._show_summary(), which change
\* nothing of the system
SaveAndSummarize ==
    /\ batch_pc = "loop"
    /\ batch_i = Len(messages)
    /\ batch_pc' = "done"
    /\ UNCHANGED <<omsVars, bookVars, tsVars, optVars, parseVars, restVars,
                   last, messages, batch_i>>

NextBatch ==
    \/ \E list \in MessageLists : process_multiple_messages(list)
    \/ ProcessNextMessage
    \/ SaveAndSummarize

SpecBatch == Init /\ [][NextBatch]_vars

\* ------------------------------------------------------------------------
\* risk_engine.py: process_order_with_risk entered by two callers at once.
\* Neither the function nor RiskEngine takes a lock, so the callers' steps
\* interleave at the calls the function makes.
\* ------------------------------------------------------------------------
\* a caller constructs an order and enters process_order_with_risk with it
Enter(t, symbol, qty, side) ==
    /\ workers[t].pc = "idle"
    /\ Len(orders) < MaxUnits
    /\ orders' = Append(orders, Order(symbol, qty, side))
    /\ visited' = Append(visited, <<"NEW">>)
    /\ applied' = Append(applied, 0)
    /\ workers' = [workers EXCEPT ![t] = [pc |-> "check", i |-> Len(orders) + 1]]
    /\ last' = [op |-> "enter", id |-> Len(orders) + 1, arg |-> "none",
                ret |-> "None", rule |-> "none"]
    /\ UNCHANGED <<positions, rejected, bookVars, tsVars, optVars, parseVars,
                   batchVars, subjectVars, brokerVars, sortVars>>

\* step 1: risk_engine.check(order); on refusal the order is rejected and the
\* function returns False
StepCheck(t) ==
    /\ workers[t].pc = "check"
    /\ LET i == workers[t].i
           c == check(orders[i], positions)
       IN  /\ last' = [op |-> "check", id |-> i, arg |-> "none",
                       ret |-> PyBool(c.ok), rule |-> c.rule]
           /\ IF c.ok
              THEN /\ workers' = [workers EXCEPT ![t].pc = "ack"]
                   /\ UNCHANGED <<orders, visited, rejected>>
              ELSE LET r == transition(orders[i].state, "REJECTED")
                   IN  /\ orders' = [orders EXCEPT ![i].state = r.state]
                       /\ visited' = [visited EXCEPT ![i] = Visit(@, r.state)]
                       /\ rejected' = rejected \cup {i}
                       /\ workers' = [workers EXCEPT ![t] = [pc |-> "idle", i |-> 0]]
    /\ UNCHANGED <<positions, applied, bookVars, tsVars, optVars, parseVars,
                   batchVars, subjectVars, brokerVars, sortVars>>

\* steps 2 and 3: order.transition(ACKED), order.transition(FILLED)
StepTransition(t, pc, new_state, next_pc) ==
    /\ workers[t].pc = pc
    /\ LET i == workers[t].i
           r == transition(orders[i].state, new_state)
       IN  /\ orders' = [orders EXCEPT ![i].state = r.state]
           /\ visited' = [visited EXCEPT ![i] = Visit(@, r.state)]
           /\ last' = [op |-> "transition", id |-> i, arg |-> new_state,
                       ret |-> PyBool(r.ret), rule |-> "none"]
    /\ workers' = [workers EXCEPT ![t].pc = next_pc]
    /\ UNCHANGED <<positions, applied, rejected, bookVars, tsVars, optVars,
                   parseVars, batchVars, subjectVars, brokerVars, sortVars>>

StepAck(t) == StepTransition(t, "ack", "ACKED", "fill")

StepFill(t) == StepTransition(t, "fill", "FILLED", "update")

\* step 4: risk_engine.update_position(order), then return True
StepUpdate(t) ==
    /\ workers[t].pc = "update"
    /\ LET i == workers[t].i
       IN  /\ positions' = update_position(orders[i], positions)
           /\ applied' = [applied EXCEPT ![i] =
                            IF writes_ledger(orders[i]) THEN @ + 1 ELSE @]
           /\ last' = [op |-> "update", id |-> i, arg |-> orders[i].state,
                       ret |-> "None", rule |-> "none"]
    /\ workers' = [workers EXCEPT ![t] = [pc |-> "idle", i |-> 0]]
    /\ UNCHANGED <<orders, visited, rejected, bookVars, tsVars, optVars,
                   parseVars, batchVars, subjectVars, brokerVars, sortVars>>

NextWorkers ==
    \/ \E t \in Workers, in \in OrderInputs : Enter(t, in[1], in[2], in[3])
    \/ \E t \in Workers : StepCheck(t)
    \/ \E t \in Workers : StepAck(t)
    \/ \E t \in Workers : StepFill(t)
    \/ \E t \in Workers : StepUpdate(t)

SpecWorkers == Init /\ [][NextWorkers]_vars

\* ------------------------------------------------------------------------
\* Assignment_3/trading: subject.py and observers.py
\* ------------------------------------------------------------------------
\* one observer of each class of observers.py
Observers == {"strategy", "risk", "logger"}

\* the prices handed to notify
TickPrices == {101, 102}

\* observer.update(price): VolatilityBreakoutStrategyObserver.update reads the
\* name window, which is bound nowhere, and raises NameError; the other two
\* return
update(observer) == IF observer = "strategy" THEN "NameError" ELSE "None"

\* list.remove(x): the list without the first item equal to x
RECURSIVE remove(_, _)
remove(list, x) ==
    IF list = <<>> THEN <<>>
    ELSE IF Head(list) = x THEN Tail(list)
    ELSE <<Head(list)>> \o remove(Tail(list), x)

InList(list, x) == \E k \in DOMAIN list : list[k] = x

\* MarketDataSubject.attach(observer)
attach(observer) ==
    /\ Len(observers) < MaxAttached
    /\ observers' = Append(observers, observer)
    /\ last' = [op |-> "attach", id |-> 0, arg |-> observer, ret |-> "None",
                rule |-> "none"]
    /\ UNCHANGED <<omsVars, bookVars, tsVars, optVars, parseVars, batchVars,
                   calls, brokerVars, workerVars, sortVars>>

\* MarketDataSubject.detach(observer): list.remove raises ValueError when the
\* observer is not in the list
detach(observer) ==
    /\ observers' = IF InList(observers, observer)
                    THEN remove(observers, observer)
                    ELSE observers
    /\ last' = [op |-> "detach", id |-> 0, arg |-> observer,
                ret |-> IF InList(observers, observer) THEN "None" ELSE "ValueError",
                rule |-> "none"]
    /\ UNCHANGED <<omsVars, bookVars, tsVars, optVars, parseVars, batchVars,
                   calls, brokerVars, workerVars, sortVars>>

\* the for loop of notify from list item k on: the update calls it makes; an
\* update that raises ends the loop
RECURSIVE notify_loop(_, _, _)
notify_loop(list, k, price) ==
    IF k > Len(list)
    THEN [made |-> <<>>, ret |-> "None"]
    ELSE LET call == [observer |-> list[k], price |-> price]
         IN  IF update(list[k]) # "None"
             THEN [made |-> <<call>>, ret |-> update(list[k])]
             ELSE LET rest == notify_loop(list, k + 1, price)
                  IN  [made |-> <<call>> \o rest.made, ret |-> rest.ret]

\* MarketDataSubject.notify(price)
notify(price) ==
    /\ LET r == notify_loop(observers, 1, price)
       IN  /\ calls' = r.made
           /\ last' = [op |-> "notify", id |-> price, arg |-> "none",
                       ret |-> r.ret, rule |-> "none"]
    /\ UNCHANGED <<omsVars, bookVars, tsVars, optVars, parseVars, batchVars,
                   observers, brokerVars, workerVars, sortVars>>

NextSubject ==
    \/ \E observer \in Observers : attach(observer)
    \/ \E observer \in Observers : detach(observer)
    \/ \E price \in TickPrices : notify(price)

SpecSubject == Init /\ [][NextSubject]_vars

\* ------------------------------------------------------------------------
\* Assignment_3/trading/broker.py
\* ------------------------------------------------------------------------
\* the calls explored: Engine.run passes its signal as qty, so qty is 1 or -1
\* there; the tests buy 10 at 100 and 11 at 111000
BrokerSides == {"buy", "sell"}
BrokerQtys == {-1, 1, 10, 11}
BrokerPrices == {100, 111000}

\* the condition under which market_order raises ValueError
market_order_raises_mut_cash_only(c, pos, qty, price) ==
    c < price * qty

market_order_raises(c, pos, qty, price) ==
    (c < price * qty) \/ (pos + qty < 0)

\* Broker.market_order(side, qty, price); side is not read
market_order(side, qty, price) ==
    /\ IF market_order_raises(cash, position, qty, price)
       THEN /\ last' = [op |-> "market_order", id |-> qty, arg |-> side,
                        ret |-> "ValueError", rule |-> "none"]
            /\ UNCHANGED <<cash, position, trades>>
       ELSE /\ trades < MaxTrades
            /\ cash' = cash + price * qty
            /\ position' = position + qty
            /\ trades' = trades + 1
            /\ last' = [op |-> "market_order", id |-> qty, arg |-> side,
                        ret |-> "None", rule |-> "none"]
    /\ UNCHANGED <<omsVars, bookVars, tsVars, optVars, parseVars, batchVars,
                   subjectVars, workerVars, sortVars>>

NextBroker ==
    \E side \in BrokerSides, qty \in BrokerQtys, price \in BrokerPrices :
        market_order(side, qty, price)

SpecBroker == Init /\ [][NextBroker]_vars

\* ------------------------------------------------------------------------
\* HeapSort_Opt.py: sort called on frames of distinct labels
\* ------------------------------------------------------------------------
\* the values of the target column
SortPrices == {1, 2, 3}

\* the frames handed to sort: row j carries the label j
Frames ==
    UNION {{[j \in 1..n |-> [order_id |-> j, price |-> f[j]]] : f \in [1..n -> SortPrices]}
           : n \in 1..MaxRows}

\* the caller has a frame and a direction at hand
Prepare(df, asc) ==
    /\ heap_df' = df
    /\ heap_asc' = asc
    /\ heap_out' = [exc |-> "pending", rows |-> <<>>]
    /\ last' = [op |-> "prepare", id |-> Len(df), arg |-> PyBool(asc),
                ret |-> "None", rule |-> "none"]
    /\ UNCHANGED <<omsVars, bookVars, tsVars, optVars, parseVars, batchVars,
                   subjectVars, brokerVars, workerVars>>

\* sorted_df = sort(df, 'price', asc)
Sort ==
    /\ heap_out.exc = "pending"
    /\ heap_out' = sort(heap_df, heap_asc)
    /\ last' = [op |-> "sort", id |-> Len(heap_df), arg |-> PyBool(heap_asc),
                ret |-> heap_out'.exc, rule |-> "none"]
    /\ UNCHANGED <<omsVars, bookVars, tsVars, optVars, parseVars, batchVars,
                   subjectVars, brokerVars, workerVars, heap_df, heap_asc>>

NextSort ==
    \/ \E df \in Frames, asc \in BOOLEAN : Prepare(df, asc)
    \/ Sort

SpecSort == Init /\ [][NextSort]_vars

\* ------------------------------------------------------------------------
\* risk_engine.py: orders of any symbol, side and integer quantity handed to
\* process_order_with_risk
\* ------------------------------------------------------------------------
\* Order takes any integer as qty: zero, and negative quantities of either
\* side, beside the regular ones
PipelineInputs == {<<"AAPL", 1000, "buy">>, <<"AAPL", 0, "BUY">>,
                   <<"AAPL", -2000, "SELL">>, <<"AAPL", -2500, "buy">>,
                   <<"MSFT", 1500, "BUY">>, <<"MSFT", 1000, "SELL">>}

NextPipeline ==
    \/ \E in \in PipelineInputs : CreateOrder(in[1], in[2], in[3])
    \/ \E i \in 1..MaxOrders : ProcessOrderWithRisk(i)

SpecPipeline == Init /\ [][NextPipeline]_vars

\* ------------------------------------------------------------------------
\* logger.py: Logger.log called directly, as TestLogger.test_logging_events
\* and the pipeline of process_fix_message do
\* ------------------------------------------------------------------------
\* the event types TradingSystem logs
EventTypes == {"ORDER_CREATED", "ORDER_ACKNOWLEDGED", "ORDER_REJECTED",
               "ORDER_FILLED", "ORDER_ERROR"}

\* the order ids carried in the data of the logged events
EventOrderIds == {1, 2}

\* Logger.log(event_type, data)
Logger_log(event_type, order_id) ==
    /\ Len(events) < MaxEvents
    /\ events' = events_append(events, log(event_type, order_id))
    /\ last' = [op |-> "log", id |-> order_id, arg |-> event_type,
                ret |-> "None", rule |-> "none"]
    /\ UNCHANGED <<omsVars, bookVars, ts_orders, order_counter, optVars,
                   parseVars, batchVars, restVars>>

NextLog ==
    \E event_type \in EventTypes, order_id \in EventOrderIds :
        Logger_log(event_type, order_id)

SpecLog == Init /\ [][NextLog]_vars

TypeOK ==
    /\ Len(orders) <= (IF MaxUnits > MaxOrders THEN MaxUnits ELSE MaxOrders)
    /\ Len(visited) = Len(orders)
    /\ Len(applied) = Len(orders)
    /\ \A i \in DOMAIN orders :
          /\ orders[i].state \in OrderStates
          /\ visited[i][Len(visited[i])] = orders[i].state

\* ------------------------------------------------------------------------
\* Properties of the order lifecycle (order.py)
\* ------------------------------------------------------------------------
AllowedPairs == {<<"NEW", "ACKED">>, <<"NEW", "REJECTED">>,
                 <<"ACKED", "FILLED">>, <<"ACKED", "CANCELED">>}

TerminalStates == {"FILLED", "CANCELED", "REJECTED"}

\* C1: a newly constructed Order is in NEW, and transition(new_state) returns
\* True and leaves the order in new_state for each of NEW->ACKED,
\* NEW->REJECTED, ACKED->FILLED and ACKED->CANCELED.
C1_ValidTransitions ==
    [][ /\ (last'.op = "create" => orders'[last'.id].state = "NEW")
        /\ (/\ last'.op = "transition"
            /\ last'.id \in DOMAIN orders
            /\ <<orders[last'.id].state, last'.arg>> \in AllowedPairs
            => /\ last'.ret = "True"
               /\ orders'[last'.id].state = last'.arg) ]_vars

\* an ACKED order has just been cancelled by a transition call that returned True
C1_Witness ==
    /\ last.op = "transition"
    /\ last.ret = "True"
    /\ last.arg = "CANCELED"
    /\ visited[last.id] = <<"NEW", "ACKED", "CANCELED">>

\* C2: for every (current, requested) pair outside the four allowed ones,
\* self-transitions and requests from a terminal state included, transition
\* returns False and the order (and everything else) is left as it was.
C2_InvalidTransitions ==
    [][ /\ last'.op = "transition"
        /\ last'.id \in DOMAIN orders
        /\ <<orders[last'.id].state, last'.arg>> \notin AllowedPairs
        => /\ last'.ret = "False"
           /\ orders' = orders
           /\ positions' = positions ]_vars

\* a self-transition requested from a terminal state was refused
C2_Witness ==
    /\ last.op = "transition"
    /\ last.ret = "False"
    /\ last.arg = "FILLED"
    /\ orders[last.id].state = "FILLED"

\* C3: in an order's history FILLED is always preceded by ACKED, and a
\* terminal state is never followed by another state.
C3_TransitionSoundness ==
    \A i \in DOMAIN visited :
        \A k \in DOMAIN visited[i] :
            /\ visited[i][k] = "FILLED"
                 => \E j \in 1..(k - 1) : visited[i][j] = "ACKED"
            /\ visited[i][k] \in TerminalStates => k = Len(visited[i])

\* a transition was requested of an order that was already FILLED
C3_Witness ==
    /\ last.op = "transition"
    /\ last.arg = "CANCELED"
    /\ visited[last.id] = <<"NEW", "ACKED", "FILLED">>

\* ------------------------------------------------------------------------
\* Properties of the risk engine (risk_engine.py)
\* ------------------------------------------------------------------------
IsBuy(side) == side \in {"BUY", "buy"}
IsSell(side) == side \in {"SELL", "sell"}

\* the position a symbol has in a ledger, 0 for a symbol never written
PositionOf(ledger, symbol) == IF symbol \in DOMAIN ledger THEN ledger[symbol] ELSE 0

\* current position + qty for a buy, current position - qty for a sell
ProjectedPosition(o, ledger) ==
    IF IsBuy(o.side)
    THEN PositionOf(ledger, o.symbol) + o.qty
    ELSE PositionOf(ledger, o.symbol) - o.qty

SizeRuleHolds(o) == o.qty <= max_order_size

PositionRuleHolds(o, ledger) ==
    /\ ProjectedPosition(o, ledger) <= max_position
    /\ ProjectedPosition(o, ledger) >= -max_position

\* C4: check admits a buy or sell order exactly when qty <= max_order_size
\* and abs(projected) <= max_position; the size rule is evaluated first, so
\* an order breaking both rules is rejected for its size.
C4_CheckRules ==
    [][ /\ last'.op = "check"
        /\ last'.id \in DOMAIN orders
        /\ (IsBuy(orders[last'.id].side) \/ IsSell(orders[last'.id].side))
        => LET o == orders[last'.id]
           IN  /\ last'.ret = "True" <=> (SizeRuleHolds(o) /\ PositionRuleHolds(o, positions))
               /\ ~SizeRuleHolds(o) => last'.rule = "size"
               /\ SizeRuleHolds(o) /\ ~PositionRuleHolds(o, positions)
                    => last'.rule = "position"
               /\ last'.ret = "True" => last'.rule = "none" ]_vars

\* check has just rejected an order that breaks both rules
C4_Witness ==
    /\ last.op = "check"
    /\ last.ret = "False"
    /\ ~SizeRuleHolds(orders[last.id])
    /\ ~PositionRuleHolds(orders[last.id], positions)

\* C5: a check call leaves the ledger (and the orders) as they were, so the
\* same call made again returns the same verdict.
C5_CheckPure ==
    [][ last'.op = "check"
        => /\ positions' = positions
           /\ orders' = orders
           /\ PyBool(check(orders'[last'.id], positions').ok) = last'.ret
           /\ check(orders'[last'.id], positions').rule = last'.rule ]_vars

\* check has admitted an order of a symbol that has a non-zero position
C5_Witness ==
    /\ last.op = "check"
    /\ last.ret = "True"
    /\ PositionOf(positions, orders[last.id].symbol) # 0

\* the signed quantity one recorded fill of the order contributes
SignedQty(o) == IF IsBuy(o.side) THEN o.qty ELSE -o.qty

RECURSIVE FilledNet(_, _)
\* buys minus sells over the fills recorded for the first n orders on a symbol
FilledNet(symbol, n) ==
    IF n = 0 THEN 0
    ELSE FilledNet(symbol, n - 1)
         + (IF orders[n].symbol = symbol THEN applied[n] * SignedQty(orders[n]) ELSE 0)

\* C6: every symbol's position is the sum of the quantities of its recorded
\* buy fills minus the sum of the quantities of its recorded sell fills, and
\* 0 for a symbol with no fill.
C6_PositionIsNetOfFills ==
    \A symbol \in Symbols :
        PositionOf(positions, symbol) = FilledNet(symbol, Len(orders))

\* a buy and a sell have both been recorded on one symbol
C6_Witness ==
    \E i, j \in DOMAIN orders :
        /\ orders[i].symbol = orders[j].symbol
        /\ IsBuy(orders[i].side) /\ applied[i] = 1
        /\ IsSell(orders[j].side) /\ applied[j] = 1

\* C7: update_position with an order that is not FILLED changes nothing in
\* the ledger.
C7_UpdateNeedsFilled ==
    [][ /\ last'.op = "update"
        /\ last'.id \in DOMAIN orders
        /\ orders[last'.id].state # "FILLED"
        => positions' = positions ]_vars

\* update_position was called with an ACKED order while another is FILLED
C7_Witness ==
    /\ last.op = "update"
    /\ orders[last.id].state = "ACKED"
    /\ \E j \in DOMAIN orders : orders[j].state = "FILLED"

\* C8: an order that the pipeline's risk check rejects ends in REJECTED, is
\* never ACKED or FILLED, and the ledger is not written for it.
C8_RejectedByRisk ==
    /\ [](\A i \in rejected :
            /\ orders[i].state = "REJECTED"
            /\ \A k \in DOMAIN visited[i] : visited[i][k] \notin {"ACKED", "FILLED"}
            /\ applied[i] = 0)
    /\ [][ last'.op \in {"process", "fix"} /\ last'.ret = "False" /\ last'.arg = "NEW"
           => /\ last'.id \in rejected'
              /\ positions' = positions ]_vars

\* the pipeline rejected an order of 1500 for its size while the ledger
\* holds a position
C8_Witness ==
    /\ last.op = "process"
    /\ last.ret = "False"
    /\ last.id \in rejected
    /\ orders[last.id].qty = 1500
    /\ \E symbol \in DOMAIN positions : positions[symbol] # 0

\* C9: the ledger is written once for an order that reached FILLED and never
\* otherwise, whatever update_position calls are made: no order has more than
\* one write, an order that never reached FILLED has none, and after
\* update_position has run for a FILLED order it has exactly one.
C9_ExactlyOncePerFill ==
    \A i \in DOMAIN orders :
        LET reached == \E k \in DOMAIN visited[i] : visited[i][k] = "FILLED"
        IN  /\ ~reached => applied[i] = 0
            /\ applied[i] <= 1
            /\ reached /\ last.op \in {"update", "process", "fix"} /\ last.id = i
                 => applied[i] = 1

\* ------------------------------------------------------------------------
\* Properties of the naive order book (baseline.py)
\* ------------------------------------------------------------------------
\* C10: after any sequence of add_order, amend_order and delete_order the bid
\* list is ordered by non-increasing price and the ask list by non-decreasing
\* price, and orders at equal price appear in the order they were added.
C10_BookSorted ==
    /\ \A j \in 1..(Len(bids) - 1) :
          \/ bids[j].price > bids[j + 1].price
          \/ bids[j].price = bids[j + 1].price /\ bids[j].arrival < bids[j + 1].arrival
    /\ \A j \in 1..(Len(asks) - 1) :
          \/ asks[j].price < asks[j + 1].price
          \/ asks[j].price = asks[j + 1].price /\ asks[j].arrival < asks[j + 1].arrival

\* a delete has left two bids of equal price, added first and third
C10_Witness ==
    /\ last.op = "delete"
    /\ Len(bids) = 2
    /\ bids[1].price = bids[2].price
    /\ bids[1].arrival = 1
    /\ bids[2].arrival = 3

\* ------------------------------------------------------------------------
\* Properties of the two order books and their queries (baseline.py,
\* optimization.py, HeapSort_Opt.py, Query.py)
\* ------------------------------------------------------------------------
\* C11: after every step of a sequence of add, amend and delete made on both
\* books, the naive and the optimized book give the same best bid, the same
\* best ask and the same id list for each price level.
C11_SameQueries ==
    /\ best_bid = best_bid_opt
    /\ best_ask = best_ask_opt
    /\ \A level \in PriceLevels : price_levels(level) = price_levels_opt(level)

\* the orders of a list that carry the id
with_id(list, order_id) == {j \in DOMAIN list : list[j].order_id = order_id}

\* the same orders in the same places, whatever their quantities
SameButQuantity(before, after) ==
    /\ Len(after) = Len(before)
    /\ \A j \in DOMAIN before : [after[j] EXCEPT !.quantity = 0]
                                  = [before[j] EXCEPT !.quantity = 0]

\* the places whose quantity differs
Changed(before, after) == {j \in DOMAIN before : after[j].quantity # before[j].quantity}

\* of a book given as one list: nothing but quantities differs, at most one
\* order has another quantity, it is an order of the id, and an order of the
\* id holds the new quantity
AmendedOne(before, after, order_id, new_quantity) ==
    /\ SameButQuantity(before, after)
    /\ Cardinality(Changed(before, after)) <= 1
    /\ Changed(before, after) \subseteq with_id(before, order_id)
    /\ \E j \in with_id(before, order_id) : after[j].quantity = new_quantity

\* C12: amend_order(id, new_quantity) on an order present in the book changes
\* only that order's quantity, in the naive and in the optimized book: the
\* ids on each side are in the same sequence and every other order has the
\* price and the quantity it had.
C12_AmendChangesOnlyQuantity ==
    [][ \A order_id \in BookIds, new_quantity \in BookQtys :
          AmendBoth(order_id, new_quantity)
          => /\ with_id(bids \o asks, order_id) # {}
                  => /\ Len(bids') = Len(bids)
                     /\ AmendedOne(bids \o asks, bids' \o asks', order_id, new_quantity)
             /\ with_id(orders_df, order_id) # {}
                  => AmendedOne(orders_df, orders_df', order_id, new_quantity) ]_vars

\* the orders of a list that do not carry the id, in their order
Others(list, order_id) == SelectSeq(list, LAMBDA o : o.order_id # order_id)

\* C13: after delete_order(id) no order with that id remains on either side
\* of the naive book nor in the optimized book, and every other order is
\* still there, in the same relative order.
C13_DeleteRemoves ==
    [][ \A order_id \in BookIds :
          DeleteBoth(order_id)
          => /\ with_id(bids' \o asks', order_id) = {}
             /\ bids' = Others(bids, order_id)
             /\ asks' = Others(asks, order_id)
             /\ orders_df' = Others(orders_df, order_id) ]_vars

\* no two orders of a list carry one id
UniqueIds(list) ==
    \A i, j \in DOMAIN list : list[i].order_id = list[j].order_id => i = j

\* C14: add_order of an order whose id is already in the book fails with
\* DuplicateId and leaves the book as it was, in the naive and in the
\* optimized book, so that no two live orders of a book ever share an id.
C14_DuplicateIdRejected ==
    /\ [][ \A o \in QueryOrders :
             AddBoth(o[1], o[2], o[3], o[4])
             => /\ with_id(bids \o asks, o[1]) # {}
                     => /\ last'.ret = "DuplicateId"
                        /\ bids' = bids
                        /\ asks' = asks
                /\ with_id(orders_df, o[1]) # {}
                     => /\ opt_ret' = "DuplicateId"
                        /\ orders_df' = orders_df ]_vars
    /\ [](UniqueIds(bids \o asks) /\ UniqueIds(orders_df))

\* C15: amend_order and delete_order of an id that is not in the book fail
\* with an error (NotFound) instead of returning normally, and leave the book
\* as it was, in the naive and in the optimized book.
C15_UnknownIdFails ==
    [][ \A order_id \in BookIds :
          (DeleteBoth(order_id) \/ \E new_quantity \in BookQtys :
                                       AmendBoth(order_id, new_quantity))
          => /\ with_id(bids \o asks, order_id) = {}
                  => /\ last'.ret # "None"
                     /\ bids' = bids
                     /\ asks' = asks
             /\ with_id(orders_df, order_id) = {}
                  => /\ opt_ret' # "None"
                     /\ orders_df' = orders_df ]_vars

\* the largest (smallest) price of a non-empty list
MaxPrice(list) == CHOOSE p \in {list[j].price : j \in DOMAIN list} :
                      \A j \in DOMAIN list : list[j].price <= p
MinPrice(list) == CHOOSE p \in {list[j].price : j \in DOMAIN list} :
                      \A j \in DOMAIN list : list[j].price >= p

\* the answer is an order of the list at the given price, or the empty
\* result when the list is empty
BestOf(answer, list, highest) ==
    IF list = <<>>
    THEN answer = [exc |-> "none", rows |-> <<>>]
    ELSE /\ answer.exc = "none"
         /\ Len(answer.rows) = 1
         /\ \E j \in DOMAIN list : Row(list[j]) = answer.rows[1]
         /\ answer.rows[1].price = IF highest THEN MaxPrice(list) ELSE MinPrice(list)

\* C16: the best query returns the highest-priced live bid and the
\* lowest-priced live ask, in the naive and in the optimized book, and the
\* empty result, not a failure, for a side that has no live order.
C16_BestQuery ==
    /\ BestOf(best_bid, bids, TRUE)
    /\ BestOf(best_ask, asks, FALSE)
    /\ BestOf(best_bid_opt, side_rows(orders_df, "bid"), TRUE)
    /\ BestOf(best_ask_opt, side_rows(orders_df, "ask"), FALSE)

\* the ids of a list of orders, in the list's order
Ids(list) == [j \in DOMAIN list |-> list[j].order_id]

RECURSIVE ByArrival(_)
\* the orders of a naive book side in the order they were added
ByArrival(list) ==
    IF list = <<>>
    THEN <<>>
    ELSE LET j == CHOOSE j \in DOMAIN list :
                      \A k \in DOMAIN list : list[j].arrival <= list[k].arrival
         IN  <<list[j]>> \o ByArrival(SubSeq(list, 1, j - 1) \o SubSeq(list, j + 1, Len(list)))

\* the live orders of a side at a level, in the order added
AtLevel(list, level) == SelectSeq(list, LAMBDA o : round(o.price) = level)

\* C17: the price-level query, asked for a side and a price, returns exactly
\* the ids of the live orders of that side whose rounded price is the given
\* price, in the order the orders were added, in both books.  The queries of
\* Query.py take no side: their answer has to be the list of one of the sides.
C17_PriceLevelQuery ==
    \A level \in PriceLevels :
        /\ price_levels(level) = Ids(AtLevel(ByArrival(bids), level))
             \/ price_levels(level) = Ids(AtLevel(ByArrival(asks), level))
        /\ price_levels_opt(level) = Ids(AtLevel(side_rows(orders_df, "bid"), level))
             \/ price_levels_opt(level) = Ids(AtLevel(side_rows(orders_df, "ask"), level))

\* ------------------------------------------------------------------------
\* Properties of the FIX decoder (fix_parser.py)
\* ------------------------------------------------------------------------
\* the message has a tag=value pair of the tag
Present(message, tag) == \E j \in DOMAIN message : message[j].eq /\ message[j].tag = tag

\* the value of the last pair of the tag
LastValue(message, tag) ==
    LET j == CHOOSE j \in DOMAIN message :
                 /\ message[j].eq /\ message[j].tag = tag
                 /\ \A k \in DOMAIN message :
                        message[k].eq /\ message[k].tag = tag => k <= j
    IN  message[j].value

\* the whitelist as the claim names it, by tag text: message type, symbol,
\* side, order type and quantity
NamedFields ==
    [tag \in {"35", "55", "54", "40", "38"} |->
        CASE tag = "35" -> "MsgType" [] tag = "55" -> "Symbol" [] tag = "54" -> "Side"
          [] tag = "40" -> "OrdType" [] tag = "38" -> "OrderQty"]

\* C18: a successful parse gives every whitelisted tag of the message
\* (message type, symbol, side, order type, quantity) its named field, with
\* the literal value supplied, so a quantity tag is decoded to the quantity.
C18_WhitelistedTagsDecoded ==
    last.op = "parse" /\ ~result.err
    => \A tag \in DOMAIN NamedFields :
           Present(wire_message, tag)
           => /\ NamedFields[tag] \in DOMAIN result.parsed
              /\ result.parsed[NamedFields[tag]] = LastValue(wire_message, tag)

\* the tag texts FixParser recognizes
RecognizedTags == {tag \in DOMAIN IntLiteral : IntLiteral[tag] \in DOMAIN ESSENTIAL_TAGS}

\* the message without its tag=value pairs of unrecognized tags
WithoutUnrecognized(message) ==
    SelectSeq(message, LAMBDA field : ~field.eq \/ field.tag \in RecognizedTags)

\* C19: pairs whose tag is not in the whitelist, whatever the tag text, never
\* make parse fail and never add or change a field: parse fails or succeeds
\* as it does on the message without them, and returns the same dict.
C19_UnknownTagsIgnored ==
    last.op = "parse"
    => LET without == parse(WithoutUnrecognized(wire_message))
       IN  /\ result.err = without.err
           /\ ~result.err => result.parsed = without.parsed

\* the message is an order-creation message (its message type is D)
IsNewOrder(message) == Present(message, "35") /\ LastValue(message, "35") = "D"

\* every tag of the message is an integer literal
NumericTags(message) ==
    \A j \in DOMAIN message : message[j].eq => message[j].tag \in DOMAIN IntLiteral

\* C20: for a message of type D, parse fails with an error when symbol, side
\* or order type is absent (the missing-field error, unless int(tag) failed
\* before), and does not fail on this check when all three are present.
C20_RequiredFields ==
    last.op = "parse" /\ IsNewOrder(wire_message)
    => IF \E tag \in {"55", "54", "40"} : ~Present(wire_message, tag)
       THEN /\ result.err
            /\ NumericTags(wire_message) => result.msg = "Missing required field"
       ELSE result.msg # "Missing required field"

\* a message of type D with symbol and order type but no side was refused
\* for the missing field
C20_Witness ==
    /\ last.op = "parse"
    /\ IsNewOrder(wire_message)
    /\ Present(wire_message, "55")
    /\ Present(wire_message, "40")
    /\ ~Present(wire_message, "54")
    /\ result.err
    /\ result.msg = "Missing required field"

\* C21: for a message of type D (that has its symbol, side and order type and
\* only numeric tags) parse fails, with the invalid-side error, whenever the
\* side value is not '1' or '2', and accepts the message when it is.
C21_SideValidated ==
    /\ last.op = "parse"
    /\ IsNewOrder(wire_message)
    /\ NumericTags(wire_message)
    /\ \A tag \in {"55", "54", "40"} : Present(wire_message, tag)
    => IF LastValue(wire_message, "54") \in {"1", "2"}
       THEN /\ ~result.err
            /\ result.parsed["Side"] = LastValue(wire_message, "54")
       ELSE /\ result.err
            /\ result.msg = "Invalid side"

\* a complete message of type D whose side is '3' was refused for its side
C21_Witness ==
    /\ last.op = "parse"
    /\ IsNewOrder(wire_message)
    /\ \A tag \in {"55", "54", "40"} : Present(wire_message, tag)
    /\ LastValue(wire_message, "54") = "3"
    /\ result.err
    /\ result.msg = "Invalid side"

\* ------------------------------------------------------------------------
\* Properties of the message pipeline (main.py: TradingSystem)
\* ------------------------------------------------------------------------
\* the quantity a message carries, 0 when it has none or it is no number
WireQty(message) ==
    IF Present(message, "38") /\ LastValue(message, "38") \in DOMAIN IntLiteral
    THEN IntLiteral[LastValue(message, "38")]
    ELSE 0

\* +quantity for the buy code '1', -quantity for the sell code '2'
WireSignedQty(message) ==
    IF LastValue(message, "54") = "1" THEN WireQty(message) ELSE -WireQty(message)

\* a well-formed order-creation message: type D, symbol, side code, order
\* type and a positive quantity, all tags numeric
WellFormed(message) ==
    /\ IsNewOrder(message)
    /\ NumericTags(message)
    /\ \A tag \in {"55", "54", "40", "38"} : Present(message, tag)
    /\ LastValue(message, "54") \in {"1", "2"}
    /\ WireQty(message) > 0

\* the order of the message is within the risk limits on the ledger
WithinLimits(message, ledger) ==
    LET symbol == LastValue(message, "55")
        after == PositionOf(ledger, symbol) + WireSignedQty(message)
    IN  /\ WireQty(message) <= max_order_size
        /\ after <= max_position
        /\ after >= -max_position

\* C22: process_fix_message on a well-formed order-creation message within
\* the risk limits creates an order, takes it NEW -> ACKED -> FILLED and
\* moves the symbol's position by +quantity for side '1' and by -quantity
\* for side '2'.
C22_WellFormedMessageFilled ==
    [][ \A raw_message \in FixMessages :
          /\ process_fix_message(raw_message)
          /\ WellFormed(raw_message)
          /\ WithinLimits(raw_message, positions)
          => LET i == Len(orders) + 1
                 symbol == LastValue(raw_message, "55")
             IN  /\ Len(orders') = i
                 /\ visited'[i] = <<"NEW", "ACKED", "FILLED">>
                 /\ PositionOf(positions', symbol)
                      = PositionOf(positions, symbol) + WireSignedQty(raw_message) ]_vars

\* the outcomes of process_fix_message that are failures: parse raised,
\* no order could be built, the risk check refused
FailedOutcomes == {"ValueError", "None", "False"}

\* C23: a message that fails to parse, fails order construction or is
\* rejected by the risk check never aborts the batch: the loop goes on to the
\* next message and ends only after the last one, and the failing message
\* leaves the positions and the earlier orders as they were and adds at most
\* an order that stays REJECTED, so the later messages produce what they
\* would without it.
C23_BatchContinues ==
    /\ [][ /\ batch_pc = "loop"
           /\ batch_i < Len(messages)
           /\ last'.op = "fix"
           /\ last'.ret \in FailedOutcomes
           => /\ batch_pc' = "loop"
              /\ batch_i' = batch_i + 1
              /\ messages' = messages
              /\ positions' = positions
              /\ \A i \in DOMAIN orders : i \in DOMAIN orders' /\ orders'[i] = orders[i]
              /\ \A i \in DOMAIN orders' \ DOMAIN orders :
                     orders'[i].state = "REJECTED" /\ applied'[i] = 0 ]_vars
    /\ [](batch_pc = "done" => batch_i = Len(messages))

\* the loop has gone on after a message that failed to parse: two messages
\* have been processed, the first has a tag that is no number, a third waits
C23_Witness ==
    /\ batch_pc = "loop"
    /\ Len(messages) = 3
    /\ batch_i = 2
    /\ Decoded[messages[1]].err
    /\ last.op = "fix"
    /\ last.ret = "None"

\* the outcome recorded in last is an error outcome of the order pipeline:
\* process_fix_message failed to decode, built no order or had the order
\* refused by the risk check, or Order.transition refused a transition
ErrorOutcome(l) ==
    \/ l.op = "fix" /\ l.ret \in FailedOutcomes
    \/ l.op = "transition" /\ l.ret = "False"

\* C24: every error outcome in the order pipeline appends an event to the
\* event log before control returns to the caller: a message that fails to
\* decode, an order that cannot be constructed, an illegal state transition
\* and a risk rejection each leave at least one new event in Logger.events.
C24_ErrorsLogged ==
    [][ ErrorOutcome(last') => Len(events') > Len(events) ]_vars

SerialUnit(order, pos) ==
    LET c == check(order, pos)
    IN  IF ~c.ok
        THEN [state |-> transition(order.state, "REJECTED").state, pos |-> pos]
        ELSE LET t1 == transition(order.state, "ACKED")
                 t2 == transition(t1.state, "FILLED")
             IN  [state |-> t2.state,
                  pos |-> update_position([order EXCEPT !.state = t2.state], pos)]

\* the orders run one after the other in the sequence perm, from the empty
\* ledger: the final state of each and the ledger at the end
RECURSIVE SerialRun(_, _, _)
SerialRun(perm, k, acc) ==
    IF k > Len(perm)
    THEN acc
    ELSE LET i == perm[k]
             u == SerialUnit([orders[i] EXCEPT !.state = "NEW"], acc.pos)
         IN  SerialRun(perm, k + 1,
                       [pos |-> u.pos, state |-> [acc.state EXCEPT ![i] = u.state]])

Orderings(n) == {p \in [1..n -> 1..n] : \A a, b \in 1..n : p[a] = p[b] => a = b}

\* C26: two units of work on the same symbol (risk check, state transitions,
\* position update) never interleave: once every caller has returned, the
\* orders' states and the positions are those of running the orders one
\* after the other in some sequence.
C26_Serializable ==
    (\A t \in Workers : workers[t].pc = "idle") /\ last.op \in {"check", "update"}
    => \E perm \in Orderings(Len(orders)) :
          LET r == SerialRun(perm, 1, [pos |-> EmptyDict,
                                       state |-> [i \in 1..Len(orders) |-> "NEW"]])
          IN  /\ \A s \in Symbols : get_position(r.pos, s) = get_position(positions, s)
              /\ \A i \in 1..Len(orders) : r.state[i] = orders[i].state

\* the observers that are attached, each once, in the order of their first
\* attachment
RECURSIVE Attached(_)
Attached(list) ==
    IF list = <<>> THEN <<>>
    ELSE LET init == Attached(SubSeq(list, 1, Len(list) - 1))
             x == list[Len(list)]
         IN  IF InList(init, x) THEN init ELSE Append(init, x)

\* C27: after any sequence of attach and detach calls, notify(price) calls
\* update(price) once on each observer that is currently attached, in attach
\* order, and on no observer that has been detached.
C27_NotifyOncePerObserver ==
    [][ \A price \in TickPrices :
          notify(price)
          => calls' = [k \in 1..Len(Attached(observers)) |->
                          [observer |-> Attached(observers)[k], price |-> price]] ]_vars

\* C28: Broker.market_order(side, qty, price) raises ValueError and leaves
\* cash and position unchanged whenever cash < price*qty or
\* position + qty < 0; otherwise it adds price*qty to cash and qty to
\* position; so the broker's position is never negative.
C28_MarketOrder ==
    /\ [][ \A side \in BrokerSides, qty \in BrokerQtys, price \in BrokerPrices :
              market_order(side, qty, price)
              => IF cash < price * qty \/ position + qty < 0
                 THEN /\ last'.ret = "ValueError"
                      /\ cash' = cash
                      /\ position' = position
                 ELSE /\ last'.ret = "None"
                      /\ cash' = cash + price * qty
                      /\ position' = position + qty ]_vars
    /\ [](position >= 0)

\* after a purchase and its sale the broker holds nothing, and a further sale
\* of one unit has been refused
C28_Witness ==
    /\ trades = 2
    /\ position = 0
    /\ last.op = "market_order"
    /\ last.id = -1
    /\ last.ret = "ValueError"

\* C29: for every non-empty frame of distinct row labels, sort returns each
\* row exactly once, ordered by price non-increasing when asc is False and
\* non-decreasing when asc is True, so the first row returned holds the
\* maximum (minimum) price, also where a parent ties with its children.
C29_SortedPermutation ==
    last.op = "sort"
    => LET rows == heap_out.rows
       IN  /\ heap_out.exc = "none"
           /\ Len(rows) = Len(heap_df)
           /\ \A j \in DOMAIN heap_df :
                  Cardinality({k \in DOMAIN rows : rows[k] = heap_df[j]}) = 1
           /\ \A k \in 1..(Len(rows) - 1) :
                  IF heap_asc
                  THEN rows[k].price <= rows[k + 1].price
                  ELSE rows[k].price >= rows[k + 1].price
           /\ \A j \in DOMAIN heap_df :
                  IF heap_asc
                  THEN rows[1].price <= heap_df[j].price
                  ELSE rows[1].price >= heap_df[j].price

\* a frame of five rows was sorted downwards whose root ties with its left
\* child for the maximum while a smaller and a larger-than-the-rest row
\* follow
C29_Witness ==
    /\ last.op = "sort"
    /\ ~heap_asc
    /\ Len(heap_df) = 5
    /\ heap_df[1].price = 3
    /\ heap_df[2].price = 3
    /\ heap_df[3].price = 1
    /\ heap_df[4].price = 3
    /\ heap_df[5].price = 2
    /\ Len(heap_out.rows) = 5
    /\ heap_out.rows[1].price = 3
    /\ heap_out.rows[5].price = 1

\* C30: after any sequence of orders (any symbol, side and integer quantity,
\* zero and negative ones included) processed through the risk-checked
\* pipeline, every symbol's position satisfies abs(position) <= max_position.
C30_PositionWithinLimit ==
    \A symbol \in Symbols : abs(get_position(positions, symbol)) <= max_position

\* an order of negative quantity was filled and took the position to the
\* limit, and the next order of the symbol was refused by the position rule
C30_Witness ==
    /\ \E i \in DOMAIN orders :
          orders[i].qty < 0 /\ orders[i].state = "FILLED" /\ applied[i] > 0
    /\ abs(get_position(positions, "AAPL")) = max_position
    /\ last.op = "process"
    /\ last.ret = "False"
    /\ last.rule = "position"
====
